---- MODULE Spec2Model ----
(***************************************************************************)
(* Model of src/lambda_code/lambda_function.py: the Lambda handler that    *)
(* lists CloudWatch metrics per namespace, renders one widget image per    *)
(* metric on a thread pool, builds one Excel workbook per namespace,       *)
(* stores it in S3 and mails the workbooks under a size limit.             *)
(***************************************************************************)
EXTENDS Integers, Sequences, FiniteSets, TLC

\* ------------------------------------------------------------------ bounds
MaxGroups      == 2   \* longest list of configured namespaces (Spec, SpecDriver)
MaxMetrics     == 2   \* largest MAX_METRICS_PER_NS setting tried (Spec, SpecPool, SpecRetry)
MaxRender      == 3   \* MAX_METRICS_PER_NS of the one-namespace runs (SpecRender)
MaxConcurrency == 2   \* largest CONCURRENCY setting tried
MaxItems       == 5   \* longest item list handed to build_excel (SpecExcel)
MaxMembers     == 3   \* most workbooks handed to send_email (SpecPack)

\* ------------------------------------------------------- program constants
max_retries  == 3     \* render_widget_image(widget, max_retries=3)
start_row    == 13
col_count    == 3
row_stride   == 22
col_stride   == 2
label_offset == 18
base_col     == 1
B64_OVERHEAD == 2048  \* the "+ 2048" of b64_size

\* ------------------------------------------------------------ input domains
\* Namespaces and metric names in ascending (lexicographic) order, so that
\* Python's string comparison is the comparison of the positions.
AllNamespaces == <<"AWS/EC2", "AWS/Lambda", "AWS/S3">>
AllTitles     == <<"CPUUtilization", "NetworkIn">>
\* Byte lengths a serialized workbook may have, and MAX_EMAIL_MB settings
\* given as int(MAX_EMAIL_MB * 1024 * 1024).
DocLens == {3000, 6000}
Limits  == {8192, 16384}

Min(a, b) == IF a <= b THEN a ELSE b
Range(s)  == {s[k] : k \in 1..Len(s)}
NsKeys(n) == {AllNamespaces[k] : k \in 1..Min(n, Len(AllNamespaces))}
RankIn(seq, x) == CHOOSE k \in 1..Len(seq) : seq[k] = x
NsRank(ns)     == RankIn(AllNamespaces, ns)
TitleRank(t)   == RankIn(AllTitles, t)
SeqsUpTo(S, n) == UNION {[1..k -> S] : k \in 0..n}

\* None and a rendered image: byte strings are sequences, None is modelled
\* as the empty one (both are falsy wherever the code tests `img`).
None     == <<>>
Png(i)   == <<"png", i>>
Truthy(b) == b # <<>>

VARIABLES
  NAMESPACES,      \* env NAMESPACES, parsed (line 30)
  CONCURRENCY,     \* env CONCURRENCY (line 37)
  limit_bytes,     \* int(MAX_EMAIL_MB * 1024 * 1024) (line 281)
  ATTACH_EXCEL,    \* env ATTACH_EXCEL (line 35)
  MAX_METRICS_PER_NS, \* env MAX_METRICS_PER_NS (line 33)
  pc,              \* position of the handler's control thread
  namespaces,      \* lambda_handler: namespaces
  ns_i,            \* position of `for ns in namespaces` (1-based)
  metrics,         \* lambda_handler: metrics of the current namespace
  fut,             \* the futures of the current pool: index -> state
  rendered_items,  \* lambda_handler: rendered_items
  excel,           \* the workbook build_excel produced last
  ns_keys,         \* keys of dict ns_to_excel in insertion order
  ns_to_excel,     \* values of dict ns_to_excel
  total_rendered,  \* lambda_handler: total_rendered
  s3,              \* S3 objects written, in order
  no_images,       \* namespaces of the "no images rendered" prints
  lines,           \* summary lines handed to send_email
  pack_i,          \* position of `for ns, info in ns_to_excel.items()`
  total_b64_bytes, \* send_email: total_b64_bytes
  attached,        \* attachments of msg, in order
  skipped,         \* namespaces of the "[INFO] Skipping attachment" prints
  ses,             \* raw e-mails handed to SES
  result           \* return value of lambda_handler

config == <<NAMESPACES, CONCURRENCY, limit_bytes, ATTACH_EXCEL, MAX_METRICS_PER_NS>>
group  == <<metrics, fut, rendered_items>>
docs   == <<excel, ns_keys, ns_to_excel, total_rendered, s3, no_images>>
mail   == <<lines, pack_i, total_b64_bytes, attached, skipped, ses>>
vars   == <<config, pc, namespaces, ns_i, group, docs, mail, result>>

\* ------------------------------------------------------------ pure helpers
\* safe(): every character outside [A-Za-z0-9._-] becomes "_"; of the
\* namespaces used here only "/" is such a character.
safe(name) ==
  CASE name = "AWS/EC2"    -> "AWS_EC2"
    [] name = "AWS/Lambda" -> "AWS_Lambda"
    [] name = "AWS/S3"     -> "AWS_S3"
    [] OTHER               -> name

\* A metric as ListMetrics returns it. Metric k of a listing carries the
\* dimension InstanceId=k, except the first, which has no dimensions; two
\* metrics of one namespace may share their MetricName.
Metric(ns, name, k) ==
  [Namespace  |-> ns,
   MetricName |-> name,
   Dimensions |-> IF k = 1 THEN <<>>
                  ELSE <<[Name |-> "InstanceId", Value |-> k]>>]

\* The pages ListMetrics may answer for a namespace, concatenated: up to
\* n metrics with any names.
Listings(ns, n) ==
  {[k \in 1..Len(names) |-> Metric(ns, names[k], k)] :
     names \in SeqsUpTo(Range(AllTitles), n)}

\* A raw metric that lacks a key build_widget reads: the dict has no
\* "MetricName", or one of its dimensions has no "Name". The missing key
\* is modelled by the value Missing.
Missing == "<missing>"

NoMetricName(metric) == [metric EXCEPT !.MetricName = Missing]

NoDimensionName(metric) ==
  [metric EXCEPT !.Dimensions =
     [k \in 1..Len(metric.Dimensions) |-> [metric.Dimensions[k] EXCEPT !.Name = Missing]]]

\* The answers of ListMetrics including those with one such metric.
RawListings(ns, n) ==
  Listings(ns, n)
  \cup UNION {{[l EXCEPT ![k] = NoMetricName(l[k])] : k \in 1..Len(l)} :
               l \in Listings(ns, n)}
  \cup UNION {{[l EXCEPT ![k] = NoDimensionName(l[k])] : k \in 2..Len(l)} :
               l \in Listings(ns, n)}

\* build_widget raises KeyError: metric["MetricName"], d["Name"]
build_widget_raises(metric) ==
  \/ metric.MetricName = Missing
  \/ \E k \in 1..Len(metric.Dimensions) : metric.Dimensions[k].Name = Missing

\* list_metrics_in_namespace: out[:MAX_METRICS_PER_NS]
list_metrics_in_namespace(out) ==
  SubSeq(out, 1, Min(Len(out), MAX_METRICS_PER_NS))

\* list_namespaces: sorted(namespaces) of a set of namespaces
RECURSIVE SortedNs(_)
SortedNs(S) ==
  IF S = {} THEN <<>>
  ELSE LET lo == CHOOSE x \in S : \A y \in S : NsRank(x) <= NsRank(y)
       IN  <<lo>> \o SortedNs(S \ {lo})

\* build_widget: the fields of the widget that depend on the metric
build_widget(metric) ==
  [title   |-> metric.MetricName,
   metrics |-> <<metric.Namespace, metric.MetricName, metric.Dimensions>>]

\* format_dims: "-" without dimensions, else the Name=Value pairs joined
\* in order
format_dims(metric) ==
  IF metric.Dimensions = <<>>
  THEN [text |-> "-", pairs |-> <<>>]
  ELSE [text |-> "Name=Value, ...",
        pairs |-> [k \in 1..Len(metric.Dimensions) |->
                     <<metric.Dimensions[k].Name, metric.Dimensions[k].Value>>]]

\* rendered_items.sort(key=lambda it: it["title"]): Python's sort is stable,
\* items of equal title keep their order. Insertion after the last item
\* whose title is not greater gives the same result.
TitleLeq(a, b) == TitleRank(a.title) <= TitleRank(b.title)

InsertByTitle(sorted, it) ==
  LET n    == Len(sorted)
      keep == Cardinality({k \in 1..n : TitleLeq(sorted[k], it)})
  IN  SubSeq(sorted, 1, keep) \o <<it>> \o SubSeq(sorted, keep + 1, n)

RECURSIVE SortUpTo(_, _)
SortUpTo(items, n) ==
  IF n = 0 THEN <<>> ELSE InsertByTitle(SortUpTo(items, n - 1), items[n])

sort_by_title(items) == SortUpTo(items, Len(items))

charts_rendered_of(items) ==
  Cardinality({k \in 1..Len(items) : Truthy(items[k].img)})

\* Mutant of GridRow: `%` where `//` is meant.
GridRowModulo(idx) == start_row + (idx % col_count) * row_stride

\* build_excel, image grid: the insert_image calls in call order. idx is
\* the 0-based position of the item in items, as enumerate() gives it.
GridRow(idx) == start_row + (idx \div col_count) * row_stride
GridCol(idx) == base_col + (idx % col_count) * col_stride

RECURSIVE GridImages(_, _)
GridImages(items, n) ==
  IF n = 0 THEN <<>>
  ELSE LET it  == items[n]
           idx == n - 1
       IN  IF ~Truthy(it.img)
           THEN GridImages(items, n - 1)
           ELSE Append(GridImages(items, n - 1),
                       [row        |-> GridRow(idx),
                        col        |-> GridCol(idx),
                        filename   |-> safe(it.title),
                        image_data |-> it.img,
                        label_row  |-> GridRow(idx) + label_offset,
                        label      |-> it.title])

\* build_excel, Catalog sheet: one data row per item
CatalogRow(it) ==
  [MetricName |-> it.metric.MetricName,
   Dimensions |-> format_dims(it.metric),
   Stat       |-> "Average",
   Rendered   |-> IF Truthy(it.img) THEN "Yes" ELSE "No"]

\* Mutant of CatalogRows: only the items that have an image are listed.
CatalogRowsRenderedOnly(items) ==
  LET shown == SelectSeq(items, LAMBDA it : Truthy(it.img))
  IN  [k \in 1..Len(shown) |-> CatalogRow(shown[k])]

\* data_rows: `for it in items: data_rows.append([...])`
CatalogRows(items) == [k \in 1..Len(items) |-> CatalogRow(items[k])]

\* build_excel(namespace, items, scanned_count): the workbook's content
build_excel(namespace, items, scanned) ==
  [namespace       |-> namespace,
   charts_rendered |-> charts_rendered_of(items),
   metrics_scanned |-> scanned,
   images          |-> GridImages(items, Len(items)),
   data_rows       |-> CatalogRows(items)]

NoWorkbook == [namespace |-> "", charts_rendered |-> 0, metrics_scanned |-> 0,
               images |-> <<>>, data_rows |-> <<>>]

\* Mutant of b64_size: the raw byte length is compared with the limit.
b64_size_raw(len) == len

\* send_email: b64_size = ((len(info["bytes"]) + 2) // 3) * 4 + 2048
b64_size(len) == ((len + 2) \div 3) * 4 + B64_OVERHEAD

\* ------------------------------------------------------------------- state
Pending == [st |-> "pending", attempt |-> 0, result |-> None, raised |-> FALSE]

NoResult == [status |-> "running", namespaces |-> <<>>,
             per_namespace_counts |-> <<>>, total_metrics_rendered |-> 0]

\* The state before lambda_handler runs, for one setting of the environment.
InitWith(nsLists, concurrencies, caps, metricCaps, attach) ==
  /\ NAMESPACES \in nsLists
  /\ CONCURRENCY \in concurrencies
  /\ limit_bytes \in caps
  /\ MAX_METRICS_PER_NS \in metricCaps
  /\ ATTACH_EXCEL \in attach
  /\ pc = "start"
  /\ namespaces = <<>>
  /\ ns_i = 1
  /\ metrics = <<>>
  /\ fut = <<>>
  /\ rendered_items = <<>>
  /\ excel = NoWorkbook
  /\ ns_keys = <<>>
  /\ ns_to_excel = <<>>
  /\ total_rendered = 0
  /\ s3 = <<>>
  /\ no_images = <<>>
  /\ lines = <<>>
  /\ pack_i = 1
  /\ total_b64_bytes = 0
  /\ attached = <<>>
  /\ skipped = <<>>
  /\ ses = <<>>
  /\ result = NoResult

Init ==
  InitWith(SeqsUpTo(NsKeys(MaxGroups), MaxGroups), 1..MaxConcurrency,
           Limits, {MaxMetrics}, BOOLEAN)

\* ------------------------------------------------- lambda_handler: the start
\* namespaces = NAMESPACES if NAMESPACES else list_namespaces(); the early
\* return when there is none.
Start ==
  /\ pc = "start"
  /\ \E found \in SUBSET NsKeys(MaxGroups) :
       /\ namespaces' = IF NAMESPACES # <<>> THEN NAMESPACES ELSE SortedNs(found)
       /\ IF namespaces' = <<>>
          THEN /\ pc' = "done"
               /\ result' = [NoResult EXCEPT !.status = "no_namespaces"]
          ELSE /\ pc' = "loop"
               /\ UNCHANGED result
  /\ UNCHANGED <<config, ns_i, group, docs, mail>>

\* --------------------------------------------- one namespace: list, submit
\* `for ns in namespaces`: list the metrics, `continue` when there are none,
\* else build the widgets, create the pool and submit one future per widget.
\* A KeyError of build_widget is caught nowhere: lambda_handler ends with
\* it. The previous iteration's rendered_items and workbook are dead here
\* and are cleared.
ForNamespace ==
  /\ pc = "loop"
  /\ ns_i <= Len(namespaces)
  /\ \E out \in RawListings(namespaces[ns_i], MAX_METRICS_PER_NS + 1) :
       /\ metrics' = list_metrics_in_namespace(out)
       /\ IF metrics' = <<>>
          THEN /\ ns_i' = ns_i + 1
               /\ fut' = <<>>
               /\ pc' = "loop"
               /\ UNCHANGED result
          ELSE IF \E k \in 1..Len(metrics') : build_widget_raises(metrics'[k])
          THEN /\ ns_i' = ns_i
               /\ fut' = <<>>
               /\ pc' = "raised"
               /\ result' = [NoResult EXCEPT !.status = "KeyError"]
          ELSE /\ ns_i' = ns_i
               /\ fut' = [i \in 1..Len(metrics') |-> Pending]
               /\ pc' = "pool"
               /\ UNCHANGED result
  /\ rendered_items' = <<>>
  /\ excel' = NoWorkbook
  /\ UNCHANGED <<config, namespaces, ns_keys, ns_to_excel, total_rendered,
                 s3, no_images, mail>>

\* ------------------------------------------------------------ the workers
\* A worker thread of the pool is busy from taking a future off the queue
\* until render_widget_image returns or raises.
Busy    == {i \in DOMAIN fut : fut[i].st \in {"calling", "sleeping"}}
Calling == {i \in DOMAIN fut : fut[i].st = "calling"}

\* Mutant of PoolHasIdleWorker: a pool that starts a thread per future.
PoolUnbounded == TRUE

\* ThreadPoolExecutor(max_workers=CONCURRENCY): a queued future starts only
\* on an idle worker thread.
PoolHasIdleWorker == Cardinality(Busy) < CONCURRENCY

\* A worker takes the oldest queued future and enters attempt 1 of
\* render_widget_image: the call to get_metric_widget_image is in flight
\* (the optional RENDER_SLEEP_SEC sleep before the call is part of it).
WorkerStart(i) ==
  /\ pc = "pool"
  /\ fut[i].st = "pending"
  /\ \A j \in DOMAIN fut : fut[j].st = "pending" => i <= j
  /\ PoolHasIdleWorker
  /\ fut' = [fut EXCEPT ![i] = [@ EXCEPT !.st = "calling", !.attempt = 1]]
  /\ UNCHANGED <<config, pc, namespaces, ns_i, metrics, rendered_items,
                 docs, mail, result>>

\* get_metric_widget_image returns the image, raises ClientError or
\* BotoCoreError (caught: last_err is set and the thread sleeps
\* 0.3 * attempt), or raises anything else (not caught: the future ends
\* with that exception). `attempt` is the loop variable of the running
\* render_widget_image; it is 0 while no call of it is running.
CallOutcomes == {"image", "ClientError", "BotoCoreError", "Exception"}

\* Mutant of AfterCall: `except ClientError` alone, so a BotoCoreError
\* leaves render_widget_image like any other exception.
AfterCallClientErrorOnly(f, i, outcome) ==
  CASE outcome = "image"       -> [f EXCEPT !.st = "done", !.attempt = 0, !.result = Png(i)]
    [] outcome = "ClientError" -> [f EXCEPT !.st = "sleeping"]
    [] OTHER                   -> [f EXCEPT !.st = "done", !.attempt = 0, !.raised = TRUE]

AfterCall(f, i, outcome) ==
  CASE outcome = "image"       -> [f EXCEPT !.st = "done", !.attempt = 0, !.result = Png(i)]
    [] outcome = "ClientError"   -> [f EXCEPT !.st = "sleeping"]
    [] outcome = "BotoCoreError" -> [f EXCEPT !.st = "sleeping"]
    [] OTHER                   -> [f EXCEPT !.st = "done", !.attempt = 0, !.raised = TRUE]

CallReturns(i) ==
  /\ pc = "pool"
  /\ fut[i].st = "calling"
  /\ \E outcome \in CallOutcomes :
       fut' = [fut EXCEPT ![i] = AfterCall(@, i, outcome)]
  /\ UNCHANGED <<config, pc, namespaces, ns_i, metrics, rendered_items,
                 docs, mail, result>>

\* Mutant of HasNextAttempt: range(1, max_retries + 2).
HasNextAttemptOffByOne(attempt) == attempt < max_retries + 1

\* for attempt in range(1, max_retries + 1): another attempt follows
\* attempt number `attempt`
HasNextAttempt(attempt) == attempt < max_retries

\* The sleep after a failed attempt ends: the next attempt's call starts,
\* or the loop is over and render_widget_image returns None.
BackoffDone(i) ==
  /\ pc = "pool"
  /\ fut[i].st = "sleeping"
  /\ fut' = [fut EXCEPT ![i] =
               IF HasNextAttempt(@.attempt)
               THEN [@ EXCEPT !.st = "calling", !.attempt = @ + 1]
               ELSE [@ EXCEPT !.st = "done", !.attempt = 0, !.result = None]]
  /\ UNCHANGED <<config, pc, namespaces, ns_i, metrics, rendered_items,
                 docs, mail, result>>

\* ----------------------------------------------------------- as_completed
\* img = None; try: img = fut.result() except Exception: (print)
ImgOf(f) == IF f.raised THEN None ELSE f.result

\* Mutant of Collect: the append sits inside the try block, so a future
\* that raised leaves no item.
CollectInsideTry(i) ==
  /\ pc = "pool"
  /\ fut[i].st = "done"
  /\ rendered_items' =
       IF fut[i].raised THEN rendered_items
       ELSE Append(rendered_items,
                   [title  |-> build_widget(metrics[i]).title,
                    img    |-> fut[i].result,
                    metric |-> metrics[i]])
  /\ fut' = [fut EXCEPT ![i] = [@ EXCEPT !.st = "yielded"]]
  /\ UNCHANGED <<config, pc, namespaces, ns_i, metrics, docs, mail, result>>

\* One iteration of `for fut in as_completed(fut_to_idx)`: a finished
\* future is yielded once and its item appended.
Collect(i) ==
  /\ pc = "pool"
  /\ fut[i].st = "done"
  /\ rendered_items' = Append(rendered_items,
                              [title  |-> build_widget(metrics[i]).title,
                               img    |-> ImgOf(fut[i]),
                               metric |-> metrics[i]])
  /\ fut' = [fut EXCEPT ![i] = [@ EXCEPT !.st = "yielded"]]
  /\ UNCHANGED <<config, pc, namespaces, ns_i, metrics, docs, mail, result>>

\* ------------------------------------------- one namespace: sort and build
\* dict assignment ns_to_excel[ns] = info: a new key goes last, an existing
\* key keeps its place.
KeysAfterPut(keys, ns) ==
  IF ns \in Range(keys) THEN keys ELSE Append(keys, ns)

\* Mutant of s3_put: the object is not written.
s3_put_dropped(objects, key, len) == objects

\* s3_put(key, data): S3.put_object under the key; `objects` is the
\* sequence of the objects written so far.
s3_put(objects, key, len) == Append(objects, [key |-> key, len |-> len])

\* Mutant of PoolDrained: the loop over the futures is left at the first
\* future yielded and the pool is shut down without waiting.
PoolDrainedAtFirst == \E i \in DOMAIN fut : fut[i].st = "yielded"

\* as_completed is exhausted and ThreadPoolExecutor.__exit__ has returned:
\* every future submitted was yielded.
PoolDrained == \A i \in DOMAIN fut : fut[i].st = "yielded"

\* The pool's `with` block is left once as_completed has yielded every
\* future: the pool is shut down and its futures are gone. Then: sort by
\* title, count the images, `continue` when there is none, else build the
\* workbook, put it to S3 and record it.
Assemble ==
  /\ pc = "pool"
  /\ PoolDrained
  /\ LET ns     == namespaces[ns_i]
         sorted == sort_by_title(rendered_items)
         count  == charts_rendered_of(sorted)
     IN  /\ rendered_items' = sorted
         /\ IF count = 0
            THEN /\ no_images' = Append(no_images, ns)
                 /\ UNCHANGED <<excel, ns_keys, ns_to_excel, total_rendered, s3>>
            ELSE \E len \in DocLens :
                   /\ excel' = build_excel(ns, sorted, Len(metrics))
                   /\ total_rendered' = total_rendered + count
                   /\ s3' = s3_put(s3, safe(ns), len)
                   /\ ns_keys' = KeysAfterPut(ns_keys, ns)
                   /\ ns_to_excel' =
                        [k \in Range(ns_keys') |->
                           IF k = ns
                           THEN [bytes   |-> [workbook |-> ns, len |-> len],
                                 s3_path |-> safe(ns),
                                 count   |-> count]
                           ELSE ns_to_excel[k]]
                   /\ UNCHANGED no_images
  /\ fut' = <<>>
  /\ pc' = "loop"
  /\ ns_i' = ns_i + 1
  /\ UNCHANGED <<config, namespaces, metrics, mail, result>>

\* ------------------------------------------------------- after the loop
\* sorted(ns_to_excel.items()), sorted(ns_to_excel.keys())
SortedKeys == SortedNs(Range(ns_keys))

\* One summary line per namespace in sorted order, then the two lines
\* added when attachments are disabled.
GroupLine(ns) ==
  [text    |-> "- {ns}: {count} charts -> {s3_path} ({size_mb} MB)",
   ns      |-> ns,
   count   |-> ns_to_excel[ns].count,
   s3_path |-> ns_to_excel[ns].s3_path,
   len     |-> ns_to_excel[ns].bytes.len]

TextLine(text) == [text |-> text, ns |-> "", count |-> 0, s3_path |-> "", len |-> 0]

SummaryLines ==
  [k \in 1..Len(SortedKeys) |-> GroupLine(SortedKeys[k])]
  \o (IF ATTACH_EXCEL THEN <<>>
      ELSE <<TextLine(""),
             TextLine("Attachments disabled (ATTACH_EXCEL=false); see S3 links above.")>>)

\* Mutant of EndLoop: without the `if not ns_to_excel: return`.
EndLoopAlwaysSends ==
  /\ pc = "loop"
  /\ ns_i > Len(namespaces)
  /\ pc' = "send_email"
  /\ lines' = SummaryLines
  /\ pack_i' = 1
  /\ total_b64_bytes' = 0
  /\ attached' = <<>>
  /\ metrics' = <<>>
  /\ rendered_items' = <<>>
  /\ excel' = NoWorkbook
  /\ UNCHANGED <<config, namespaces, ns_i, fut, ns_keys, ns_to_excel,
                 total_rendered, s3, no_images, skipped, ses, result>>

\* The loop over the namespaces is over: return when no workbook was
\* built, else build the summary lines and enter send_email. The locals of
\* the last iteration are not read again and are cleared.
EndLoop ==
  /\ pc = "loop"
  /\ ns_i > Len(namespaces)
  /\ IF ns_keys = <<>>
     THEN /\ pc' = "done"
          /\ result' = [NoResult EXCEPT !.status = "no_excel_files_generated"]
          /\ UNCHANGED mail
     ELSE /\ pc' = "send_email"
          /\ lines' = SummaryLines
          /\ pack_i' = 1
          /\ total_b64_bytes' = 0
          /\ attached' = <<>>
          /\ UNCHANGED <<skipped, ses, result>>
  /\ metrics' = <<>>
  /\ rendered_items' = <<>>
  /\ excel' = NoWorkbook
  /\ UNCHANGED <<config, namespaces, ns_i, fut, ns_keys, ns_to_excel,
                 total_rendered, s3, no_images>>

\* -------------------------------------------------------------- send_email
\* if total_b64_bytes + b64_size > limit_bytes: skip
OverLimit(total, size) == total + size > limit_bytes

\* Mutant of PackStep: the part is put in front of the parts attached so
\* far.
PackStepPrepend ==
  /\ pc = "send_email"
  /\ ATTACH_EXCEL
  /\ pack_i <= Len(ns_keys)
  /\ LET ns   == ns_keys[pack_i]
         size == b64_size(ns_to_excel[ns].bytes.len)
     IN  IF OverLimit(total_b64_bytes, size)
         THEN /\ skipped' = Append(skipped, ns)
              /\ UNCHANGED <<attached, total_b64_bytes>>
         ELSE /\ attached' = <<[filename |-> safe(ns),
                                bytes    |-> ns_to_excel[ns].bytes]>> \o attached
              /\ total_b64_bytes' = total_b64_bytes + size
              /\ UNCHANGED skipped
  /\ pack_i' = pack_i + 1
  /\ UNCHANGED <<config, pc, namespaces, ns_i, group, docs, lines, ses, result>>

\* Mutant of PackStep: `break` in place of `continue`, the loop ends at the
\* first workbook that does not fit.
PackStepBreak ==
  /\ pc = "send_email"
  /\ ATTACH_EXCEL
  /\ pack_i <= Len(ns_keys)
  /\ LET ns   == ns_keys[pack_i]
         size == b64_size(ns_to_excel[ns].bytes.len)
     IN  IF OverLimit(total_b64_bytes, size)
         THEN /\ skipped' = Append(skipped, ns)
              /\ pack_i' = Len(ns_keys) + 1
              /\ UNCHANGED <<attached, total_b64_bytes>>
         ELSE /\ attached' = Append(attached,
                                    [filename |-> safe(ns),
                                     bytes    |-> ns_to_excel[ns].bytes])
              /\ total_b64_bytes' = total_b64_bytes + size
              /\ pack_i' = pack_i + 1
              /\ UNCHANGED skipped
  /\ UNCHANGED <<config, pc, namespaces, ns_i, group, docs, lines, ses, result>>

\* One iteration of `for ns, info in ns_to_excel.items()`.
PackStep ==
  /\ pc = "send_email"
  /\ ATTACH_EXCEL
  /\ pack_i <= Len(ns_keys)
  /\ LET ns   == ns_keys[pack_i]
         size == b64_size(ns_to_excel[ns].bytes.len)
     IN  IF OverLimit(total_b64_bytes, size)
         THEN /\ skipped' = Append(skipped, ns)
              /\ UNCHANGED <<attached, total_b64_bytes>>
         ELSE /\ attached' = Append(attached,
                                    [filename |-> safe(ns),
                                     bytes    |-> ns_to_excel[ns].bytes])
              /\ total_b64_bytes' = total_b64_bytes + size
              /\ UNCHANGED skipped
  /\ pack_i' = pack_i + 1
  /\ UNCHANGED <<config, pc, namespaces, ns_i, group, docs, lines, ses, result>>

\* SES.send_raw_email with the body and the attachments, then the return
\* value of lambda_handler.
SendRaw ==
  /\ pc = "send_email"
  /\ ~ATTACH_EXCEL \/ pack_i > Len(ns_keys)
  /\ ses' = Append(ses, [body |-> lines, attachments |-> attached])
  /\ result' = [status                 |-> "email_sent",
                namespaces             |-> SortedKeys,
                per_namespace_counts   |-> [k \in Range(ns_keys) |-> ns_to_excel[k].count],
                total_metrics_rendered |-> total_rendered]
  /\ pc' = "done"
  /\ UNCHANGED <<config, namespaces, ns_i, group, docs, lines, pack_i,
                 total_b64_bytes, attached, skipped>>

\* ------------------------------------------------------------ specification
Next ==
  \/ Start
  \/ ForNamespace
  \/ \E i \in DOMAIN fut : WorkerStart(i)
  \/ \E i \in DOMAIN fut : CallReturns(i)
  \/ \E i \in DOMAIN fut : BackoffDone(i)
  \/ \E i \in DOMAIN fut : Collect(i)
  \/ Assemble
  \/ EndLoop
  \/ PackStep
  \/ SendRaw

Spec == Init /\ [][Next]_vars

\* Runs over one configured namespace with up to MaxRender metrics: the
\* thread pool of one group under every interleaving.
InitRender ==
  InitWith({<<AllNamespaces[1]>>}, 1..MaxConcurrency, {16384}, {MaxRender}, {TRUE})

SpecRender == InitRender /\ [][Next]_vars

\* ---------------------------------------------------------------------------
\* build_excel on longer item lists: the runs start where as_completed has
\* yielded every future of the one configured namespace, with up to
\* MaxItems metrics, any names, any mix of images and None, collected in
\* submission order or in the reverse order.
Reverse(seq) == [k \in 1..Len(seq) |-> seq[Len(seq) + 1 - k]]

YieldedWith(img) ==
  [st |-> "yielded", attempt |-> 0, result |-> img, raised |-> FALSE]

InitExcel ==
  /\ NAMESPACES = <<AllNamespaces[1]>>
  /\ CONCURRENCY = 1
  /\ limit_bytes = 16384
  /\ MAX_METRICS_PER_NS = MaxItems
  /\ ATTACH_EXCEL = TRUE
  /\ pc = "pool"
  /\ namespaces = NAMESPACES
  /\ ns_i = 1
  /\ metrics \in Listings(namespaces[1], MaxItems) \ {<<>>}
  /\ \E ok \in [1..Len(metrics) -> BOOLEAN] :
       /\ fut = [i \in 1..Len(metrics) |->
                   YieldedWith(IF ok[i] THEN Png(i) ELSE None)]
       /\ LET items == [i \in 1..Len(metrics) |->
                          [title  |-> build_widget(metrics[i]).title,
                           img    |-> ImgOf(fut[i]),
                           metric |-> metrics[i]]]
          IN  rendered_items \in {items, Reverse(items)}
  /\ excel = NoWorkbook
  /\ ns_keys = <<>>
  /\ ns_to_excel = <<>>
  /\ total_rendered = 0
  /\ s3 = <<>>
  /\ no_images = <<>>
  /\ lines = <<>>
  /\ pack_i = 1
  /\ total_b64_bytes = 0
  /\ attached = <<>>
  /\ skipped = <<>>
  /\ ses = <<>>
  /\ result = NoResult

NextExcel == Assemble \/ EndLoop \/ PackStep \/ SendRaw

SpecExcel == InitExcel /\ [][NextExcel]_vars

\* ---------------------------------------------------------------------------
\* send_email on more workbooks: the runs start where the loop over the
\* namespaces has ended, every configured namespace having listed one
\* metric and rendered it. The namespaces are configured in any order.
DistinctSeqs(S, n) ==
  {q \in SeqsUpTo(S, n) : \A a, b \in 1..Len(q) : q[a] = q[b] => a = b}

OneMetric(ns) == <<Metric(ns, AllTitles[1], 1)>>

OneItem(ns) ==
  <<[title |-> AllTitles[1], img |-> Png(1), metric |-> OneMetric(ns)[1]]>>

\* The limits of the packing runs: one more, under which three workbooks
\* of the smaller length fit.
PackLimits == Limits \cup {24576}

InitPack ==
  /\ NAMESPACES \in DistinctSeqs(NsKeys(MaxMembers), MaxMembers) \ {<<>>}
  /\ CONCURRENCY = 1
  /\ limit_bytes \in PackLimits
  /\ MAX_METRICS_PER_NS = 1
  /\ ATTACH_EXCEL \in BOOLEAN
  /\ pc = "loop"
  /\ namespaces = NAMESPACES
  /\ ns_i = Len(namespaces) + 1
  /\ metrics = OneMetric(namespaces[Len(namespaces)])
  /\ fut = <<>>
  /\ rendered_items = OneItem(namespaces[Len(namespaces)])
  /\ excel = build_excel(namespaces[Len(namespaces)], rendered_items, 1)
  /\ ns_keys = namespaces
  /\ \E len \in [Range(ns_keys) -> DocLens] :
       /\ ns_to_excel = [k \in Range(ns_keys) |->
                           [bytes   |-> [workbook |-> k, len |-> len[k]],
                            s3_path |-> safe(k),
                            count   |-> 1]]
       /\ s3 = [k \in 1..Len(ns_keys) |->
                  [key |-> safe(ns_keys[k]), len |-> len[ns_keys[k]]]]
  /\ no_images = <<>>
  /\ total_rendered = Len(ns_keys)
  /\ lines = <<>>
  /\ pack_i = 1
  /\ total_b64_bytes = 0
  /\ attached = <<>>
  /\ skipped = <<>>
  /\ ses = <<>>
  /\ result = NoResult

NextPack == EndLoop \/ PackStep \/ SendRaw

SpecPack == InitPack /\ [][NextPack]_vars

\* The whole handler over every list of at most MaxGroups configured
\* namespaces, a namespace named twice included, with one metric kept per
\* namespace and one worker thread.
InitDriver ==
  InitWith(SeqsUpTo(NsKeys(MaxGroups), MaxGroups), {1}, Limits, {1}, BOOLEAN)

SpecDriver == InitDriver /\ [][Next]_vars

\* One namespace with at most MaxMetrics requests on MaxConcurrency worker
\* threads: the runs in which the attempts of one request go on beside
\* those of another.
InitRetry ==
  InitWith({<<AllNamespaces[1]>>}, {MaxConcurrency}, {16384}, {MaxMetrics}, {TRUE})

SpecRetry == InitRetry /\ [][Next]_vars

\* Two namespaces one after the other, each with its own pool, in a run in
\* which every thread that can take a step takes one in the end: a call of
\* get_metric_widget_image returns, a sleep ends, an idle worker takes the
\* next queued future, the main thread goes on.
InitPool ==
  InitWith({<<AllNamespaces[1], AllNamespaces[2]>>}, 1..MaxConcurrency,
           {16384}, {MaxMetrics}, {TRUE})

SpecPool == InitPool /\ [][Next]_vars /\ WF_vars(Next)

\* ===========================================================================
\* Properties
\* ===========================================================================
\* The items of rendered_items that came from request i of the pool.
ItemsOf(i) == {k \in 1..Len(rendered_items) : rendered_items[k].metric = metrics[i]}

AllYielded == pc = "pool" /\ \A i \in DOMAIN fut : fut[i].st = "yielded"

\* C1: once as_completed has yielded every future of a group, and after
\* the sort that follows, rendered_items holds exactly one item per
\* submitted request (none lost, none twice), whatever the interleaving and
\* whichever requests failed or raised; while futures are outstanding, a
\* request has one item if it was yielded and none otherwise.
C1_OneOutcomePerRequest ==
  /\ pc = "pool" =>
       \A i \in DOMAIN fut :
         Cardinality(ItemsOf(i)) = IF fut[i].st = "yielded" THEN 1 ELSE 0
  /\ (AllYielded \/ pc = "loop") =>
       /\ Len(rendered_items) = Len(metrics)
       /\ \A i \in 1..Len(metrics) : Cardinality(ItemsOf(i)) = 1

\* A pool of three requests is done: one raised an unexpected exception,
\* one failed all its attempts, one returned an image.
C1_Witness ==
  /\ AllYielded
  /\ Len(rendered_items) = 3
  /\ \E i, j, k \in DOMAIN fut :
       /\ fut[i].raised
       /\ ~fut[j].raised /\ ~Truthy(fut[j].result)
       /\ Truthy(fut[k].result)

\* The state part of C2: a running request is in one of the attempts
\* 1..max_retries; a request that has its image is finished; the item of a
\* failed request has no image; and while the pool runs there is always a
\* call in flight, a sleeping or startable request, a future to collect, or
\* the pool is complete (a failure never stops the batch).
C2_EveryState ==
  /\ \A i \in DOMAIN fut :
       /\ fut[i].attempt <= max_retries
       /\ fut[i].st \in {"calling", "sleeping"} => fut[i].attempt >= 1
       /\ Truthy(fut[i].result) => fut[i].st \in {"done", "yielded"}
       /\ (fut[i].st = "yielded" /\ ~Truthy(fut[i].result))
            => \A k \in ItemsOf(i) : rendered_items[k].img = None
  /\ pc = "pool" =>
       \/ \E i \in DOMAIN fut : fut[i].st \in {"calling", "sleeping", "done"}
       \/ \E i \in DOMAIN fut : fut[i].st = "pending" /\ Cardinality(Busy) < CONCURRENCY
       \/ \A i \in DOMAIN fut : fut[i].st = "yielded"

\* The step part of C2, for request i while its pool runs: a call is made
\* only by entering the next attempt; a call that succeeds is the request's
\* last; and the request returns None only out of attempt max_retries.
C2_EveryStep(i) ==
  /\ fut'[i].attempt <= fut[i].attempt + 1
  /\ fut[i].st \in {"done", "yielded"} =>
       /\ fut'[i].st \in {"done", "yielded"}
       /\ fut'[i].result = fut[i].result
       /\ fut'[i].raised = fut[i].raised
  /\ (fut[i].st \notin {"done", "yielded"} /\ fut'[i].st = "done"
        /\ ~fut'[i].raised /\ ~Truthy(fut'[i].result))
       => fut[i].attempt = max_retries

\* C2: each request calls the render service at most max_retries (3)
\* times, the calls stop at the first success, a request whose 3 attempts
\* all failed ends with None, and the batch goes on collecting the others.
C2_RetryPolicy ==
  /\ []C2_EveryState
  /\ [][(pc = "pool" /\ pc' = "pool") => \A i \in DOMAIN fut : C2_EveryStep(i)]_vars

\* One request has failed its 3 attempts and was collected without an
\* image; after that a second request has its image and a third one is in
\* its second attempt.
C2_Witness ==
  /\ pc = "pool"
  /\ \E i, j, k \in DOMAIN fut :
       /\ fut[i].st = "yielded" /\ ~fut[i].raised /\ ~Truthy(fut[i].result)
       /\ fut[j].st = "done" /\ Truthy(fut[j].result)
       /\ fut[k].st = "calling" /\ fut[k].attempt = 2

\* C3: the calls to get_metric_widget_image in flight never exceed
\* CONCURRENCY.
C3_InFlightBounded == Cardinality(Calling) <= CONCURRENCY

\* CONCURRENCY calls are in flight while a further request waits in the
\* queue.
C3_Witness ==
  /\ Cardinality(Calling) = CONCURRENCY
  /\ \E i \in DOMAIN fut : fut[i].st = "pending"

\* The state right after a group's workbook was built: rendered_items is
\* sorted and excel is the workbook of namespaces[ns_i - 1].
Built == pc = "loop" /\ excel # NoWorkbook

\* Position of an item's metric in the listing, i.e. its submission index.
MetricIndex(it) == CHOOSE i \in 1..Len(metrics) : metrics[i] = it.metric

\* C4 (as claimed): after the sort, the order of the items depends on the
\* outcomes only, not on the order the workers completed in, also among
\* items of equal title. Every completion order is possible, so the order
\* is the one that completion in submission order gives: ascending title,
\* and ascending submission index among equal titles.
C4_OrderIndependentOfCompletion ==
  pc = "loop" =>
    \A a, b \in 1..Len(rendered_items) :
      a < b =>
        /\ TitleLeq(rendered_items[a], rendered_items[b])
        /\ rendered_items[a].title = rendered_items[b].title
             => MetricIndex(rendered_items[a]) < MetricIndex(rendered_items[b])

\* C5: the item at sorted index i (0-based) that has an image is inserted
\* once, at grid row i div col_count and grid column i mod col_count (sheet
\* row start_row + row_stride * row, sheet column base_col + col_stride *
\* column), and no two images share a cell.
C5_GridPlacement ==
  Built =>
    /\ \A k \in 1..Len(rendered_items) :
         Truthy(rendered_items[k].img) =>
           LET at == {m \in 1..Len(excel.images) :
                        excel.images[m].image_data = rendered_items[k].img}
           IN  /\ Cardinality(at) = 1
               /\ \A m \in at :
                    /\ excel.images[m].row =
                         start_row + row_stride * ((k - 1) \div col_count)
                    /\ excel.images[m].col =
                         base_col + col_stride * ((k - 1) % col_count)
    /\ \A m, n \in 1..Len(excel.images) :
         m # n => <<excel.images[m].row, excel.images[m].col>>
                    # <<excel.images[n].row, excel.images[n].col>>

\* A workbook of five items has an image in grid row 1, grid column 1
\* (sorted index 4).
C5_Witness ==
  /\ Built
  /\ Len(rendered_items) = 5
  /\ \E m \in 1..Len(excel.images) :
       /\ excel.images[m].row = start_row + row_stride
       /\ excel.images[m].col = base_col + col_stride

\* Grid position (row-major, 0-based) of an inserted image.
GridPos(im) ==
  ((im.row - start_row) \div row_stride) * col_count
    + (im.col - base_col) \div col_stride

\* C6 (as claimed): the images fill the grid without holes: the grid
\* positions that hold an image are exactly 0 .. rendered_count - 1.
C6_GridFilledWithoutHoles ==
  Built =>
    {GridPos(excel.images[m]) : m \in 1..Len(excel.images)}
      = 0..(excel.charts_rendered - 1)

\* C7: in every workbook the handler builds, the catalog has one row per
\* scanned metric (scanned_count rows), the row of a metric says "Yes"
\* exactly if the metric's request ended with an image, and the number of
\* images in the grid is the number of rendered charts recorded for the
\* namespace.
C7_CatalogAndGridCounts ==
  /\ pc = "pool" =>
       \A i \in DOMAIN fut : \A k \in ItemsOf(i) :
         Truthy(rendered_items[k].img) <=> (Truthy(fut[i].result) /\ ~fut[i].raised)
  /\ Built =>
       /\ excel.metrics_scanned = Len(metrics)
       /\ Len(excel.data_rows) = Len(metrics)
       /\ \A i \in 1..Len(metrics) :
            LET rows == {k \in 1..Len(excel.data_rows) :
                           /\ excel.data_rows[k].MetricName = metrics[i].MetricName
                           /\ excel.data_rows[k].Dimensions = format_dims(metrics[i])}
            IN  /\ Cardinality(rows) = 1
                /\ \A k \in rows : \A j \in ItemsOf(i) :
                     excel.data_rows[k].Rendered = "Yes" <=> Truthy(rendered_items[j].img)
       /\ Len(excel.images) = Cardinality({k \in 1..Len(rendered_items) :
                                             Truthy(rendered_items[k].img)})
       /\ Len(excel.images) = excel.charts_rendered
       /\ Len(excel.images) = ns_to_excel[namespaces[ns_i - 1]].count

\* A workbook over three scanned metrics with a "Yes" row and a "No" row.
C7_Witness ==
  /\ Built
  /\ Len(metrics) = 3
  /\ \E a, b \in 1..Len(excel.data_rows) :
       excel.data_rows[a].Rendered = "Yes" /\ excel.data_rows[b].Rendered = "No"

\* The transport size of a member of n raw bytes: base64 turns every
\* started group of 3 bytes into 4 characters, plus the fixed overhead.
Ceil3(n)    == CHOOSE q \in 0..n : 3 * q >= n /\ 3 * (q - 1) < n
Estimate(n) == 4 * Ceil3(n) + B64_OVERHEAD

RECURSIVE SumEstimates(_)
SumEstimates(parts) ==
  IF parts = <<>> THEN 0
  ELSE Estimate(Head(parts).bytes.len) + SumEstimates(Tail(parts))

RECURSIVE SumLens(_)
SumLens(keys) ==
  IF keys = <<>> THEN 0
  ELSE ns_to_excel[Head(keys)].bytes.len + SumLens(Tail(keys))

\* C8: at every point of the packing and in every message handed to SES,
\* the estimated transport sizes of the attached workbooks sum to at most
\* limit_bytes, no attached workbook's own estimate exceeds limit_bytes,
\* and the running total compared with the limit is the sum of the
\* estimates 4 * ceil(n / 3) + 2048, not of the raw lengths n.
C8_PackWithinCap ==
  /\ SumEstimates(attached) <= limit_bytes
  /\ \A k \in 1..Len(attached) : Estimate(attached[k].bytes.len) <= limit_bytes
  /\ total_b64_bytes = SumEstimates(attached)
  /\ \A m \in 1..Len(ses) : SumEstimates(ses[m].attachments) <= limit_bytes

\* A message was sent with a workbook attached and another one left out,
\* although the raw lengths of all workbooks together are within the limit.
C8_Witness ==
  /\ pc = "done"
  /\ Len(ses) = 1
  /\ ses[1].attachments # <<>>
  /\ skipped # <<>>
  /\ SumLens(ns_keys) <= limit_bytes

\* C9 (as claimed): the workbooks are considered in ascending order of
\* their namespaces whatever the configured order, so of two workbooks
\* that each fit under the limit but not together, the one attached is
\* the one of the smaller namespace.
C9_SmallerKeyAdmitted ==
  (/\ pc = "done"
   /\ Len(ns_keys) = 2
   /\ Len(attached) = 1
   /\ Len(skipped) = 1
   /\ \A k \in 1..2 : Estimate(ns_to_excel[ns_keys[k]].bytes.len) <= limit_bytes)
    => NsRank(attached[1].bytes.workbook) < NsRank(skipped[1])

\* C10 (as claimed): in every message handed to SES, each workbook left
\* out for the limit has a summary line that records it as left out, i.e.
\* a line that differs in wording from the lines of the attached workbooks.
C10_ExcludedRecordedInSummary ==
  \A m \in 1..Len(ses) :
    \A e \in Range(skipped) :
      \E k \in 1..Len(ses[m].body) :
        /\ ses[m].body[k].ns = e
        /\ \A j \in 1..Len(ses[m].body) :
             (\E a \in 1..Len(ses[m].attachments) :
                ses[m].attachments[a].bytes.workbook = ses[m].body[j].ns)
               => ses[m].body[j].text # ses[m].body[k].text

\* The namespaces named on a line of the summary of message m.
SummaryNamespaces(m) == {ses[m].body[k].ns : k \in 1..Len(ses[m].body)} \ {""}

\* C11: a namespace whose render requests all failed is named in the
\* final summary: once the message is sent and the handler has returned,
\* every namespace for which no image was rendered has a line in the body
\* of the message and an entry of per_namespace_counts.
C11_EmptyGroupInSummary ==
  (pc = "done" /\ result.status = "email_sent") =>
     \A k \in 1..Len(no_images) :
        /\ no_images[k] \in DOMAIN result.per_namespace_counts
        /\ \A m \in 1..Len(ses) : no_images[k] \in SummaryNamespaces(m)

\* C12: a metric of the listing that lacks its name, or a dimension of it
\* that lacks its key, never ends the namespace or the run: lambda_handler
\* is never left by an exception while the listing it was working on holds
\* such a metric.
C12_MalformedMetricNeverAborts ==
  pc = "raised" => \A k \in 1..Len(metrics) : ~build_widget_raises(metrics[k])

\* The bucket holds the workbook recorded for ns: the last object written
\* under the recorded s3_path has the length of the recorded bytes.
Stored(ns) ==
  \E k \in 1..Len(s3) :
     /\ s3[k].key = ns_to_excel[ns].s3_path
     /\ s3[k].len = ns_to_excel[ns].bytes.len
     /\ \A j \in (k + 1)..Len(s3) : s3[j].key # s3[k].key

\* C13: every workbook built is written to S3, attached later or not, and
\* written before the message is sent: every recorded workbook is in the
\* bucket from the step that records it, the step that sends the message
\* starts with every workbook in the bucket and no object is written after
\* it; so every workbook left out of the message is in the bucket when the
\* message is sent, and the body of the message names its s3_path.
C13_StoredBeforeDelivery ==
  /\ [](\A ns \in Range(ns_keys) : Stored(ns))
  /\ [](\A m \in 1..Len(ses) : \A k \in 1..Len(skipped) :
          /\ Stored(skipped[k])
          /\ \E l \in 1..Len(ses[m].body) :
                /\ ses[m].body[l].ns = skipped[k]
                /\ ses[m].body[l].s3_path = ns_to_excel[skipped[k]].s3_path)
  /\ [][/\ ses' # ses => \A ns \in Range(ns_keys) : Stored(ns)
        /\ ses # <<>> => s3' = s3]_vars

\* A message was sent that leaves a workbook out, and two workbooks had
\* been written before.
C13_Witness ==
  /\ pc = "done"
  /\ Len(ses) = 1
  /\ skipped # <<>>
  /\ Len(s3) = 2

\* Request i of the current pool is submitted and not resolved yet.
Unresolved(i) == i \in DOMAIN fut /\ fut[i].st \in {"pending", "calling", "sleeping"}

\* C14: the pool is created and shut down once per namespace and leaves no
\* worker behind. The step that leaves the pool for the sort starts with
\* every future yielded, so with no call in flight and no worker asleep;
\* outside a pool there is no future at all; the step that opens the next
\* pool starts with none and submits pending futures only. And, every call
\* returning, each submitted request is resolved in the end and each pool
\* is shut down in the end.
C14_PoolPerGroupNoLeak ==
  /\ [][(pc = "pool" /\ pc' # "pool") =>
           /\ \A i \in DOMAIN fut : fut[i].st = "yielded"
           /\ Busy = {}
           /\ fut' = <<>>]_vars
  /\ [](pc # "pool" => fut = <<>>)
  /\ [][(pc # "pool" /\ pc' = "pool") =>
           /\ fut = <<>>
           /\ \A i \in DOMAIN fut' : fut'[i] = Pending]_vars
  /\ (pc = "pool" /\ \E i \in DOMAIN fut : Unresolved(i))
        ~> (pc = "pool" /\ \A i \in DOMAIN fut : ~Unresolved(i))
  /\ (pc = "pool") ~> (pc # "pool")

\* The pool of the second namespace has just been opened after the pool of
\* the first one rendered an image on each of two requests.
C14_Witness ==
  /\ pc = "pool"
  /\ ns_i = 2
  /\ Len(fut) = 2
  /\ \A i \in DOMAIN fut : fut[i] = Pending
  /\ total_rendered = 2

\* The loop of send_email over the rest `keys` of ns_to_excel under the
\* limit cap, from the state st of (attached, skipped, total): the
\* namespaces attached and skipped, in the order they were taken.
RECURSIVE PackFrom(_, _, _)
PackFrom(keys, cap, st) ==
  IF keys = <<>> THEN st
  ELSE LET ns   == Head(keys)
           size == b64_size(ns_to_excel[ns].bytes.len)
       IN  PackFrom(Tail(keys), cap,
                    IF st.total + size > cap
                    THEN [st EXCEPT !.skipped = Append(@, ns)]
                    ELSE [st EXCEPT !.attached = Append(@, ns), !.total = @ + size])

PackUnder(cap) ==
  PackFrom(ns_keys, cap, [attached |-> <<>>, skipped |-> <<>>, total |-> 0])

\* The namespaces of the workbooks attached so far, in the order of the
\* parts of the message.
Admitted == [k \in 1..Len(attached) |-> attached[k].bytes.workbook]

\* a comes before b in the sequence q of distinct elements
Before(a, b, q) ==
  \E i, j \in 1..Len(q) : i < j /\ q[i] = a /\ q[j] = b

\* C15: for the same workbooks in the same iteration order, the limit
\* decides only which workbooks are attached, never their order, and the
\* packing is a function of its input: the parts of the message are in
\* iteration order under every limit; any two workbooks attached in this
\* run and also attached under another limit are in the same relative
\* order in both; and the attached and the skipped workbooks of the
\* finished packing are those that packing the same input under the same
\* limit yields again.
C15_CapNeverReorders ==
  /\ \A a, b \in Range(Admitted) : Before(a, b, Admitted) => Before(a, b, ns_keys)
  /\ (pc = "done" /\ ATTACH_EXCEL /\ ses # <<>>) =>
        /\ \A cap \in PackLimits :
             \A a, b \in Range(Admitted) \cap Range(PackUnder(cap).attached) :
                Before(a, b, Admitted) <=> Before(a, b, PackUnder(cap).attached)
        /\ Admitted = PackUnder(limit_bytes).attached
        /\ skipped = PackUnder(limit_bytes).skipped

\* A message was sent with two of three workbooks attached, and under a
\* larger limit all three are attached.
C15_Witness ==
  /\ pc = "done"
  /\ Len(ses) = 1
  /\ Len(Admitted) = 2
  /\ Len(skipped) = 1
  /\ \E cap \in PackLimits : Len(PackUnder(cap).attached) = 3

\* C16: a request sleeps only between a failed attempt and the attempt that
\* follows it: a worker is in the sleep of 0.3 * attempt only after attempt
\* 1 or attempt 2, never after the last attempt.
C16_BackoffOnlyBetweenAttempts ==
  \A i \in DOMAIN fut :
     fut[i].st = "sleeping" => HasNextAttempt(fut[i].attempt)

\* Request i leaves render_widget_image in this step without an image.
ResolvesFailed(i) ==
  /\ i \in DOMAIN fut /\ i \in DOMAIN fut'
  /\ fut[i].st \in {"calling", "sleeping"}
  /\ fut'[i].st = "done"
  /\ ImgOf(fut'[i]) = None

\* C17 as stated: whatever the kind of failure of a call, the request is
\* retried until it succeeds or 3 attempts were made, so a request is
\* resolved without an image out of its third attempt only.
C17_EveryFailureRetried ==
  [][\A i \in 1..MaxRender : ResolvesFailed(i) => fut[i].attempt = max_retries]_vars

\* C17 amended: a ClientError and a BotoCoreError of a call are handled
\* the same way, the thread sleeps and the request goes on to the next
\* attempt until an attempt succeeds or 3 were made; any other exception
\* is not retried, it ends the request at that attempt, and the request
\* is recorded as failed. So a request is resolved without an image either
\* out of the sleep after attempt 3 or by an exception of the other kind.
C17_CaughtFailuresRetried ==
  /\ [](\A i \in Calling :
          /\ AfterCall(fut[i], i, "ClientError") = AfterCall(fut[i], i, "BotoCoreError")
          /\ AfterCall(fut[i], i, "ClientError").st = "sleeping"
          /\ AfterCall(fut[i], i, "ClientError").attempt = fut[i].attempt
          /\ AfterCall(fut[i], i, "Exception").raised
          /\ AfterCall(fut[i], i, "Exception").st = "done")
  /\ [][\A i \in 1..MaxRender :
          /\ ResolvesFailed(i) =>
               \/ fut[i].st = "sleeping" /\ fut[i].attempt = max_retries /\ ~fut'[i].raised
               \/ fut[i].st = "calling" /\ fut'[i].raised
          /\ (i \in DOMAIN fut /\ i \in DOMAIN fut' /\ fut[i].st = "sleeping"
              /\ fut'[i] # fut[i] /\ fut[i].attempt < max_retries) =>
               fut'[i].st = "calling" /\ fut'[i].attempt = fut[i].attempt + 1]_vars

\* One request was ended by an exception that is not caught while another
\* one is in its third attempt after two caught failures.
C17_Witness ==
  \E i, j \in DOMAIN fut :
     /\ fut[i].st = "done" /\ fut[i].raised
     /\ fut[j].st = "calling" /\ fut[j].attempt = max_retries

\* The running total with which workbook k of the iteration order was
\* compared: the estimates of the workbooks attached out of those before it.
TotalBefore(k) ==
  SumEstimates(SelectSeq(attached,
                         LAMBDA part : \E j \in 1..(k - 1) : ns_keys[j] = part.bytes.workbook))

\* C18: skipping a workbook changes neither the running total nor the
\* parts attached so far and does not end the loop: the step that skips
\* one leaves both as they were and moves on to the next workbook, and
\* every workbook the loop has passed or, once the message is sent, every
\* workbook at all is attached exactly when its estimate fits under the
\* limit with the running total of its turn, workbooks after a skipped one
\* included.
C18_SkipLeavesPackingIntact ==
  /\ [][skipped' # skipped =>
          /\ attached' = attached
          /\ total_b64_bytes' = total_b64_bytes
          /\ pack_i' = pack_i + 1
          /\ pc' = pc]_vars
  /\ [](\A k \in 1..Len(ns_keys) :
          (ATTACH_EXCEL /\ (k < pack_i \/ ses # <<>>) /\ pc \in {"send_email", "done"}) =>
             /\ ns_keys[k] \in Range(Admitted) <=>
                  TotalBefore(k) + Estimate(ns_to_excel[ns_keys[k]].bytes.len) <= limit_bytes
             /\ ns_keys[k] \in Range(skipped) <=> ns_keys[k] \notin Range(Admitted))

\* A message was sent in which the first workbook of the iteration order
\* was skipped and a later one attached.
C18_Witness ==
  /\ pc = "done"
  /\ Len(ses) = 1
  /\ skipped # <<>>
  /\ skipped[1] = ns_keys[1]
  /\ Admitted # <<>>

\* The sum of per_namespace_counts of the result over the namespaces in keys.
RECURSIVE SumCounts(_)
SumCounts(keys) ==
  IF keys = <<>> THEN 0
  ELSE result.per_namespace_counts[Head(keys)] + SumCounts(Tail(keys))

\* C19: in the result of a run that sent its message,
\* total_metrics_rendered is the sum of per_namespace_counts over the
\* namespaces reported, whatever the configured list of namespaces, a list
\* naming a namespace twice included.
C19_TotalIsSumOfCounts ==
  (pc = "done" /\ result.status = "email_sent") =>
     result.total_metrics_rendered = SumCounts(result.namespaces)

\* C20: SES.send_raw_email is called at most once in a run, after the loop
\* over the namespaces has taken every namespace, and only when a workbook
\* was built: the step that sends starts in send_email with no message
\* sent, the loop index past the last namespace, no pool open and a
\* workbook recorded; and a run that found no namespace, built no workbook
\* or was ended by an exception has sent nothing.
C20_DeliveryOnceAfterAllGroups ==
  /\ [](Len(ses) <= 1)
  /\ [](ses # <<>> =>
          /\ pc = "done"
          /\ result.status = "email_sent"
          /\ ns_i > Len(namespaces)
          /\ ns_keys # <<>>)
  /\ [][ses' # ses =>
          /\ pc = "send_email"
          /\ ses = <<>>
          /\ ns_i > Len(namespaces)
          /\ fut = <<>>
          /\ ns_keys # <<>>]_vars
  /\ []((pc \in {"done", "raised"} /\ (namespaces = <<>> \/ ns_keys = <<>>)) =>
          /\ ses = <<>>
          /\ result.status \in {"no_namespaces", "no_excel_files_generated", "KeyError"})

\* The one message of a run over two namespaces was sent after both had
\* their turn, one of which rendered no image.
C20_Witness ==
  /\ pc = "done"
  /\ Len(ses) = 1
  /\ Len(namespaces) = 2
  /\ no_images # <<>>

====
